---- MODULE Spec2Model ----
(***************************************************************************)
(* CH9329 HID plugin of kvmd: the frame codec (proto.py), the request      *)
(* processor with its retry loop, the event worker (run / __hid_loop) and  *)
(* the state publisher (get_state / poll_state) of                         *)
(* kvmd/plugins/hid/ch9329/__init__.py.                                    *)
(***************************************************************************)
EXTENDS Integers, Sequences, FiniteSets, TLC

(***************************************************************************)
(* Bounds of the model.                                                    *)
(***************************************************************************)
\* largest configured value of common_retries / read_retries explored
MaxRetries == 2
\* largest configured value of errors_threshold explored
MaxThreshold == 1
\* largest number of events pending in the queue
MaxQueue == 2
\* largest number of payload bytes of a frame built from bytes
MaxPayload == 1

(***************************************************************************)
(* Frame codec (proto.py).                                                 *)
(***************************************************************************)
RECURSIVE SumBytes(_)
SumBytes(s) == IF s = <<>> THEN 0 ELSE Head(s) + SumBytes(Tail(s))

\* bytes.startswith
StartsWith(s, p) == Len(s) >= Len(p) /\ SubSeq(s, 1, Len(p)) = p

\* sum.to_bytes(4, 'little')[0]: the low byte of the sum
LowByte_nowrap(n) == n

LowByte(n) == n % 256

make_with_sum(data) == data \o <<LowByte(SumBytes(data))>>

check_with_sum_any(data) == TRUE

check_with_sum(data) ==
    LET _l == Len(data)
    IN  data[_l] = LowByte(SumBytes(SubSeq(data, 1, _l - 1)))

CH9329_HEADER == <<87, 171, 0>>
GET_INFO == CH9329_HEADER \o <<1, 0>>
SEND_KB_GENERAL_DATA == CH9329_HEADER \o <<2, 8>>
SEND_MS_ABS_DATA == CH9329_HEADER \o <<4, 7, 2>>
SEND_MS_REL_DATA == CH9329_HEADER \o <<5, 5, 1>>

release_keyboard == make_with_sum(SEND_KB_GENERAL_DATA \o <<0, 0, 0, 0, 0, 0, 0, 0>>)
release_mouse == make_with_sum(SEND_MS_REL_DATA \o <<0, 0, 0, 0>>)
GET_INFO_S == make_with_sum(GET_INFO)
READ_MY_HID_DATA == CH9329_HEADER \o <<135>>
CH9329_HEADER_S == CH9329_HEADER

(***************************************************************************)
(* Event model (proto.py).  An event is a record of one shape; the fields  *)
(* a variant does not have stay at their defaults.  fixed_x / fixed_y are  *)
(* the values __post_init__ derives.                                       *)
(***************************************************************************)
\* kvmd.mouse.MouseRange
MouseRange_MIN == -32768
MouseRange_MAX == 32767

\* kvmd.keyboard.mappings.KEYMAP[name].otg.code (USB HID usage of the key)
KEYMAP == [a |-> 4, b |-> 5]

Event(kind, name, state, x, y, fx, fy) ==
    [kind |-> kind, name |-> name, state |-> state, x |-> x, y |-> y,
     fixed_x |-> fx, fixed_y |-> fy]

KeyEvent(name, state) == Event("key", name, state, 0, 0, 0, 0)

MouseButtonEvent(name, state) == Event("button", name, state, 0, 0, 0, 0)

\* int(math.floor((v + MAX) / (MAX * 2 / 4096))); \div floors
MouseMoveFixed(v) == ((v + MouseRange_MAX) * 4096) \div (MouseRange_MAX * 2)

MouseMoveEvent(to_x, to_y) ==
    Event("move", "", TRUE, to_x, to_y, MouseMoveFixed(to_x), MouseMoveFixed(to_y))

MouseRelativeEvent(delta_x, delta_y) ==
    Event("relative", "", TRUE, delta_x, delta_y, delta_x + 127, delta_y + 127)

MouseWheelEvent(delta_x, delta_y) ==
    Event("wheel", "", TRUE, delta_x, delta_y,
          (delta_x + 127) \div 2, (delta_y + 127) \div 2)

\* mouse_btn_map: name -> <<code, isNormalKey>>
mouse_btn_map ==
    [left |-> <<1, TRUE>>, right |-> <<2, TRUE>>, middle |-> <<4, TRUE>>,
     up |-> <<1, FALSE>>, down |-> <<129, FALSE>>]

\* struct.pack of one "B": a value outside 0..255 raises struct.error
PackB_ok(v) == v >= 0 /\ v <= 255
\* struct.pack of one little-endian "h"
PackH_ok(v) == v >= -32768 /\ v <= 32767
PackH(v) == <<(v % 65536) % 256, (v % 65536) \div 256>>

Packed(frame) == [ok |-> TRUE, frame |-> frame]
PackError == [ok |-> FALSE, frame |-> <<>>]

\* BaseEvent.make_down of each variant: the request frame, or struct.error
make_down(ev) ==
    CASE ev.kind = "key" ->
            IF ~ev.state THEN Packed(release_keyboard)
            ELSE Packed(make_with_sum(SEND_KB_GENERAL_DATA
                          \o <<0, 0, KEYMAP[ev.name], 0, 0, 0, 0, 0>>))
      [] ev.kind = "button" ->
            IF ~ev.state THEN Packed(release_mouse)
            ELSE LET code == mouse_btn_map[ev.name][1]
                     isNormalKey == mouse_btn_map[ev.name][2]
                     nKey == IF isNormalKey THEN code ELSE 0
                     moveKey == IF isNormalKey THEN 0 ELSE code
                 IN  Packed(make_with_sum(SEND_MS_REL_DATA \o <<nKey, 0, 0, moveKey>>))
      [] ev.kind = "move" ->
            IF PackH_ok(ev.fixed_x) /\ PackH_ok(ev.fixed_y)
            THEN Packed(make_with_sum(SEND_MS_ABS_DATA
                          \o <<0>> \o PackH(ev.fixed_x) \o PackH(ev.fixed_y) \o <<0>>))
            ELSE PackError
      [] ev.kind = "relative" ->
            IF PackB_ok(ev.x) /\ PackB_ok(ev.y)
            THEN Packed(make_with_sum(SEND_MS_REL_DATA \o <<0, ev.x, ev.y, 0>>))
            ELSE PackError
      [] ev.kind = "wheel" ->
            IF PackB_ok(ev.fixed_y)
            THEN Packed(make_with_sum(SEND_MS_REL_DATA \o <<0, 0, 0, ev.fixed_y>>))
            ELSE PackError

(***************************************************************************)
(* Transport (_CH3929PhyConnection.send).  `wire` is the byte stream the   *)
(* device puts on the line after the request was written.                  *)
(***************************************************************************)
Prefix(s, n) == SubSeq(s, 1, IF n < Len(s) THEN n ELSE Len(s))

\* tty.read(5), then tty.read(data[4] + 1); a short read raises
\* _TempRequestError
send(wire) ==
    LET data == Prefix(wire, 5)
    IN  IF Len(data) < 5 THEN [ok |-> FALSE, data |-> data]
        ELSE LET _len == data[5]
                 full == Prefix(wire, 5 + _len + 1)
             IN  IF Len(full) - 6 # _len THEN [ok |-> FALSE, data |-> full]
                 ELSE [ok |-> TRUE, data |-> full]

(***************************************************************************)
(* What the device may put on the line in answer to a request frame.       *)
(***************************************************************************)
\* lock-status bytes the device reports (bit 0 num, bit 1 caps, bit 2 scroll)
StatusBytes == {0, 5}

InfoAck(online, status) ==
    make_with_sum(CH9329_HEADER \o <<129, 8, 49, online, status, 0, 0, 0, 0, 0>>)
GenericAck(cmd) == make_with_sum(CH9329_HEADER \o <<(cmd + 128) % 256, 1, 0>>)
ErrorAck(cmd) == make_with_sum(CH9329_HEADER \o <<(cmd + 192) % 256, 1, 228>>)
BadSum(frame) == [frame EXCEPT ![Len(frame)] = (@ + 1) % 256]
BadHeader(frame) == make_with_sum(<<86>> \o SubSeq(frame, 2, Len(frame) - 1))

Wires(req) ==
    LET cmd == req[4]
        acks == IF cmd = 1
                THEN {InfoAck(o, st) : o \in {0, 1}, st \in StatusBytes}
                     \cup {make_with_sum(CH9329_HEADER \o <<129, 0>>)}
                ELSE {GenericAck(cmd)}
        one == IF cmd = 1 THEN InfoAck(1, 0) ELSE GenericAck(cmd)
    IN  acks
        \cup {ErrorAck(cmd), ErrorAck(cmd + 1), GenericAck(cmd + 1)}
        \cup {BadSum(one), BadHeader(one)}
        \cup {Prefix(one, 3), Prefix(one, 5)}

\* answers to the resynchronizing probe, whose content the code does not read
ProbeWires == {InfoAck(1, 0), Prefix(InfoAck(1, 0), 3)}

(***************************************************************************)
(* State.                                                                  *)
(***************************************************************************)
VARIABLES
    cfg,                  \* read_retries, common_retries, errors_threshold, noop
    stop_event,           \* multiprocessing.Event
    reset_required_event, \* multiprocessing.Event
    events_queue,         \* multiprocessing.Queue of events
    state_flags,          \* AioSharedFlags
    notified,             \* AioProcessNotifier: a notification is pending
    pc,                   \* position of the worker process (run)
    wait_i,               \* iteration of the presence wait
    conn_open,            \* number of open serial connections
    ret_to,               \* call site __process_request returns to
    request,              \* __process_request: request
    response,             \* __process_request: response
    common_retries,       \* __process_request: common_retries
    read_retries,         \* __process_request: read_retries
    error_retval,         \* __process_request: error_retval
    error_messages,       \* __process_request: error_messages
    live_log_errors,      \* __process_request: live_log_errors
    exc,                  \* last exception that left __process_request / the inner loop
    attempts,             \* exchanges of the request frame in this call (line 379)
    probes,               \* resynchronizing exchanges in this call (line 385)
    outcome,              \* how the retry loop of this call was left
    log,                  \* logger.error messages of this call
    many_logged,          \* the "many errors" diagnostic was logged
    all_badsum,           \* every exchange of this call got a complete, checksum-invalid answer
    last_kind,            \* how the try block ended for the last response of this call
    online_at_call,       \* state_flags.online when this call began (get-info: 0)
    retried_after_stop,   \* an attempt after a failed one started with stop_event set
    last_success_ret,     \* value the last acknowledged call on this connection returned
    pub_old,              \* state_flags when the publication in progress began
    poll_pc,              \* position of the poll_state generator
    prev_state,           \* poll_state: prev_state
    last_yielded,         \* last element poll_state yielded
    just_yielded,         \* the last check of poll_state yielded an element
    snap_whole,           \* the last get_state snapshot mixed no two status answers
    key_call,             \* send_key_events: the iterable and the position in it
    clear_call,           \* __queue_event(event, clear=True) in progress
    codec,                \* a frame or an event being built, checked or encoded
    reset_call            \* a call of reset being followed until a hardware reset starts

sharedVars == <<cfg, stop_event, reset_required_event, events_queue, state_flags, notified>>
localVars == <<ret_to, request, response, common_retries, read_retries, error_retval,
               error_messages, live_log_errors>>
callGhost == <<attempts, probes, outcome, log, many_logged, all_badsum, last_kind,
              online_at_call, retried_after_stop>>
pollVars == <<poll_pc, prev_state, last_yielded, just_yielded, snap_whole>>
hostVars == <<key_call, clear_call, codec, reset_call>>
vars == <<sharedVars, pc, wait_i, conn_open, localVars, exc, callGhost,
          last_success_ret, pub_old, pollVars, hostVars>>

\* range(10) of __hid_loop_wait_device
WaitTries == 10

\* events the producers submit
EngineEvents == {KeyEvent("a", TRUE), MouseRelativeEvent(-1, 0)}

\* the plugin options (get_plugin_options): read_retries and common_retries are
\* valid_int_f1, errors_threshold is valid_int_f0, noop is valid_bool
AllConfigs ==
    [common_retries : 1 .. MaxRetries, read_retries : 1 .. MaxRetries,
     errors_threshold : 0 .. MaxThreshold, noop : BOOLEAN]

DefaultConfig ==
    [common_retries |-> MaxRetries, read_retries |-> 1,
     errors_threshold |-> MaxThreshold, noop |-> FALSE]

Differing(c) == {k \in DOMAIN c : c[k] # DefaultConfig[k]} \ {"read_retries"}

\* the configurations explored: the default and those that change one option;
\* read_retries, which the code only tests for zero, takes each of its values
\* along with common_retries
Configs ==
    {c \in AllConfigs : /\ Cardinality(Differing(c)) <= 1
                        /\ c.read_retries = MaxRetries + 1 - c.common_retries}

\* the configurations explored for termination
LiveConfigs == {c \in Configs : Differing(c) \subseteq {"noop"}}

\* the configurations explored together with a consumer of poll_state
PollConfigs ==
    {c \in AllConfigs : c.common_retries = 1 /\ c.read_retries = 1
                          /\ c.errors_threshold = 0}

InitFlags == [online |-> 0, busy |-> 0, status |-> 0, caps |-> 0, num |-> 0, scroll |-> 0]

EmptyDict == [k \in {} |-> 0]

\* no send_key_events call is in progress
NoKeys == [keys |-> <<>>, i |-> 0, queued |-> 0]

\* no clearing submission is in progress
NoClear == [at |-> "idle", n |-> 0, old |-> 0]

\* nothing is being built or encoded
NoCodec == [op |-> "none"]

\* a hardware reset (gpio.reset()) starts: a followed call of reset is served
ResetStarts(rc) == IF rc = "made" THEN "served" ELSE rc

(***************************************************************************)
(* State publisher.                                                        *)
(***************************************************************************)
\* AioSharedFlags.update(key=value): one field, atomically
Update(flags, key, value) == [flags EXCEPT ![key] = value]

BoolInt(b) == IF b THEN 1 ELSE 0

\* get_state: the dictionary built from one snapshot of the flags
get_state(flags) ==
    LET online == flags.online # 0
    IN  [online |-> online, busy |-> FALSE, connected |-> online,
         keyboard |-> [online |-> online,
                       leds |-> [caps |-> flags.caps # 0, scroll |-> flags.scroll # 0,
                                 num |-> flags.num # 0]],
         mouse |-> [online |-> online, absolute |-> TRUE]]

(***************************************************************************)
(* Request processor (__process_request).                                  *)
(***************************************************************************)
\* the try block up to its break / raise, for a complete response
Classify(req, resp) ==
    IF ~StartsWith(resp, CH9329_HEADER_S) \/ Len(resp) < 4 THEN "bad_header"
    ELSE IF ~check_with_sum(resp) THEN "bad_sum"
    ELSE LET _REQ_COMMAND_CODE == req[4]
             _REP_COMMAND_CODE == resp[4]
         IN  IF _REQ_COMMAND_CODE = 135 THEN "break"
             ELSE IF _REP_COMMAND_CODE > 192
             THEN IF _REQ_COMMAND_CODE + 192 = _REP_COMMAND_CODE
                  THEN IF Len(resp) >= 6 THEN "device_error" ELSE "index_error"
                  ELSE "invalid_response"
             ELSE IF _REP_COMMAND_CODE > 128 /\ _REQ_COMMAND_CODE + 128 = _REP_COMMAND_CODE
             THEN IF _REQ_COMMAND_CODE = 1
                  THEN IF Len(resp) >= 8 THEN "info" ELSE "index_error"
                  ELSE IF _REQ_COMMAND_CODE < 16 THEN "break"
                  ELSE "not_supported"
             ELSE "invalid_response"

\* the values lines 405-409 parse from a get-info acknowledgement
ParsedOnline(resp) == BoolInt(resp[7] # 0)
ParsedNum(resp) == BoolInt((resp[8] % 2) # 0)
ParsedCaps_bit2(resp) == BoolInt(((resp[8] \div 4) % 2) # 0)
ParsedCaps(resp) == BoolInt(((resp[8] \div 2) % 2) # 0)
ParsedScroll(resp) == BoolInt(((resp[8] \div 4) % 2) # 0)

\* the flags once lines 410-413 have all run
PubTarget(flags, resp) ==
    [flags EXCEPT !.online = ParsedOnline(resp), !.num = ParsedNum(resp),
                  !.caps = ParsedCaps(resp), !.scroll = ParsedScroll(resp)]

RetryCond_early(cr, rr, stopped) == cr > 1 /\ rr # 0

RetryCond_stop(cr, rr, stopped) == cr # 0 /\ rr # 0 /\ ~stopped

\* while common_retries and read_retries
RetryCond(cr, rr, stopped) == cr # 0 /\ rr # 0

connected_exit_leak(n) == n

\* with ... as conn: leaving the block closes the serial port
connected_exit(n) == n - 1

clear_events_flush(q) == <<>>

\* clear_events: pass
clear_events(q) == q

\* entering __process_request(conn, req) from call site rt
Call(req, rt) ==
    /\ pc' = "pr_loop"
    /\ ret_to' = rt
    /\ request' = req
    /\ response' = <<>>
    /\ common_retries' = cfg.common_retries
    /\ read_retries' = cfg.read_retries
    /\ error_retval' = FALSE
    /\ error_messages' = <<>>
    /\ live_log_errors' = FALSE
    /\ attempts' = 0
    /\ probes' = 0
    /\ outcome' = "none"
    /\ log' = <<>>
    /\ many_logged' = FALSE
    /\ all_badsum' = TRUE
    /\ last_kind' = "none"
    /\ online_at_call' = IF req = GET_INFO_S THEN 0 ELSE state_flags.online
    /\ retried_after_stop' = FALSE

\* the locals of __process_request are gone
DropLocals ==
    /\ ret_to' = "none"
    /\ request' = <<>>
    /\ response' = <<>>
    /\ common_retries' = 0
    /\ read_retries' = 0
    /\ error_retval' = FALSE
    /\ error_messages' = <<>>
    /\ live_log_errors' = FALSE
    /\ attempts' = 0
    /\ probes' = 0
    /\ outcome' = "none"
    /\ log' = <<>>
    /\ many_logged' = FALSE
    /\ all_badsum' = TRUE
    /\ last_kind' = "none"
    /\ online_at_call' = 0
    /\ retried_after_stop' = FALSE

\* an exception leaves the block of "with self.__phy.connected()" (in_with) or
\* the code before it, and reaches "except Exception" of __hid_loop
Fault(kind, in_with) ==
    /\ pc' = "hl_except"
    /\ exc' = kind
    /\ conn_open' = IF in_with THEN connected_exit(conn_open) ELSE conn_open
    /\ DropLocals

\* except _RequestError as err (lines 427-447); a message is named by the number
\* of the attempt that raised it
Handler(msg) ==
    /\ common_retries' = common_retries - 1
    /\ IF live_log_errors
       THEN /\ log' = Append(log, msg)
            /\ UNCHANGED <<error_messages, live_log_errors>>
       ELSE LET buffered == Append(error_messages, msg)
            IN  IF Len(buffered) > cfg.errors_threshold
                THEN /\ log' = log \o buffered
                     /\ error_messages' = <<>>
                     /\ live_log_errors' = TRUE
                ELSE /\ error_messages' = buffered
                     /\ UNCHANGED <<log, live_log_errors>>
    /\ state_flags' = Update(state_flags, "online", 0)
    /\ notified' = TRUE
    /\ pc' = "pr_loop"
    /\ UNCHANGED <<ret_to, request, read_retries, error_retval, outcome,
                   many_logged, conn_open, exc, pub_old>>

\* a complete response (send returned it) whose checksum is wrong
BadSumAnswer(resp) == ~check_with_sum(resp)

\* bookkeeping of one exchange of the request frame that got response resp
Counted(resp, probe_ok) ==
    /\ attempts' = attempts + 1
    /\ retried_after_stop' = (retried_after_stop \/ (stop_event /\ attempts >= 1))
    /\ all_badsum' = (all_badsum /\ BadSumAnswer(resp) /\ probe_ok)
    /\ last_kind' = Classify(request, resp)
    /\ response' = resp
    /\ UNCHANGED online_at_call

AttemptNoop_exchange ==
    /\ pc = "pr_loop"
    /\ RetryCond(common_retries, read_retries, stop_event)
    /\ cfg.noop
    /\ attempts' = attempts + 1
    /\ state_flags' = Update(state_flags, "online", 1)
    /\ notified' = TRUE
    /\ pc' = "pr_end"
    /\ outcome' = "success"
    /\ UNCHANGED <<cfg, stop_event, reset_required_event, events_queue, wait_i, conn_open,
                   localVars, exc, probes, log, many_logged, all_badsum, last_kind,
                   online_at_call, retried_after_stop, last_success_ret, pub_old, pollVars, hostVars>>

\* one iteration of the retry loop with the noop flag set (lines 380-382)
AttemptNoop ==
    /\ pc = "pr_loop"
    /\ RetryCond(common_retries, read_retries, stop_event)
    /\ cfg.noop
    /\ state_flags' = Update(state_flags, "online", 1)
    /\ notified' = TRUE
    /\ pc' = "pr_end"
    /\ outcome' = "success"
    /\ UNCHANGED <<cfg, stop_event, reset_required_event, events_queue, wait_i, conn_open,
                   localVars, exc, attempts, probes, log, many_logged, all_badsum,
                   last_kind, online_at_call,
                   retried_after_stop, last_success_ret, pub_old, pollVars, hostVars>>

\* one iteration of the retry loop (lines 376-447): the exchange of the request
\* frame, the checks on the response, and the handler of a _RequestError
Attempt ==
    /\ pc = "pr_loop"
    /\ RetryCond(common_retries, read_retries, stop_event)
    /\ ~cfg.noop
    /\ UNCHANGED <<cfg, stop_event, reset_required_event, events_queue, wait_i,
                   last_success_ret, pollVars, hostVars>>
    /\ \/ \* the serial port fails (serial.SerialException)
          /\ Fault("io", TRUE)
          /\ UNCHANGED <<state_flags, notified, pub_old>>
       \/ \E wire \in Wires(request) :
            LET r == send(wire)
                what == Classify(request, r.data)
            IN  IF ~r.ok
                THEN \* _TempRequestError raised by send at line 379, outside the try
                     /\ Fault("short_read", TRUE)
                     /\ UNCHANGED <<state_flags, notified, pub_old>>
                ELSE IF what = "index_error"
                THEN /\ Fault("index", TRUE)
                     /\ UNCHANGED <<state_flags, notified, pub_old>>
                ELSE IF what \in {"bad_header", "bad_sum"}
                THEN \* conn.send(GET_INFO_S) at line 385, then raise
                     \/ /\ Fault("io", TRUE)
                        /\ UNCHANGED <<state_flags, notified, pub_old>>
                     \/ \E wire2 \in ProbeWires :
                          /\ Counted(r.data, send(wire2).ok)
                          /\ probes' = probes + 1
                          /\ Handler(attempts + 1)
                ELSE IF what \in {"device_error", "not_supported", "invalid_response"}
                THEN /\ Counted(r.data, TRUE)
                     /\ UNCHANGED probes
                     /\ Handler(attempts + 1)
                ELSE IF what = "break"
                THEN /\ Counted(r.data, TRUE)
                     /\ pc' = "pr_end"
                     /\ outcome' = "success"
                     /\ UNCHANGED <<state_flags, notified, pub_old, probes, conn_open, exc,
                                    ret_to, request, common_retries, read_retries,
                                    error_retval, error_messages, live_log_errors, log,
                                    many_logged>>
                ELSE \* "info", line 410: the first of four updates
                     /\ Counted(r.data, TRUE)
                     /\ pub_old' = state_flags
                     /\ state_flags' = Update(state_flags, "online", ParsedOnline(r.data))
                     /\ notified' = TRUE
                     /\ pc' = "pr_pub_num"
                     /\ UNCHANGED <<probes, conn_open, exc, ret_to, request,
                                    common_retries, read_retries, error_retval,
                                    error_messages, live_log_errors, log, many_logged,
                                    outcome>>

\* lines 411-413 and the break at line 417
Publish(at, key, value, next) ==
    /\ pc = at
    /\ state_flags' = Update(state_flags, key, value)
    /\ notified' = TRUE
    /\ pc' = next
    /\ IF next = "pr_end"
       THEN outcome' = "success" /\ response' = <<>> /\ pub_old' = InitFlags
       ELSE UNCHANGED <<outcome, response, pub_old>>
    /\ UNCHANGED <<cfg, stop_event, reset_required_event, events_queue, wait_i, conn_open,
                   ret_to, request, common_retries, read_retries, error_retval,
                   error_messages, live_log_errors, exc, attempts, probes, log,
                   many_logged, all_badsum, last_kind, online_at_call, retried_after_stop,
                   last_success_ret, pollVars, hostVars>>

PublishNum == Publish("pr_pub_num", "num", ParsedNum(response), "pr_pub_caps")
PublishCaps == Publish("pr_pub_caps", "caps", ParsedCaps(response), "pr_pub_scroll")
PublishScroll == Publish("pr_pub_scroll", "scroll", ParsedScroll(response), "pr_end")

\* the loop condition at line 376 is false
LoopExit ==
    /\ pc = "pr_loop"
    /\ ~RetryCond(common_retries, read_retries, stop_event)
    /\ pc' = "pr_end"
    /\ outcome' = "exhausted"
    /\ UNCHANGED <<sharedVars, wait_i, conn_open, localVars, exc, attempts, probes, log,
                   many_logged, all_badsum, last_kind, online_at_call, retried_after_stop,
                   last_success_ret, pub_old, pollVars, hostVars>>

\* lines 449-453: flush the buffered messages, the "many errors" diagnostic
ProcessEnd ==
    /\ pc = "pr_end"
    /\ log' = log \o error_messages
    /\ many_logged' = ~(common_retries # 0 /\ read_retries # 0)
    /\ pc' = "pr_ret"
    /\ UNCHANGED <<sharedVars, wait_i, conn_open, localVars, exc, attempts, probes, outcome,
                   all_badsum, last_kind, online_at_call, retried_after_stop,
                   last_success_ret, pub_old, pollVars, hostVars>>

(***************************************************************************)
(* Event worker (run, __hid_loop, __hid_loop_wait_device).                 *)
(***************************************************************************)
keepCall == <<localVars, callGhost>>

\* run, line 308, and entering "with self.__gpio"
RunHead ==
    /\ pc = "run_head"
    /\ IF stop_event
       THEN pc' = "done" /\ UNCHANGED exc
       ELSE \E gpio_ok \in BOOLEAN :
              IF gpio_ok THEN pc' = "hl_head" /\ UNCHANGED exc
              ELSE pc' = "run_except" /\ exc' = "gpio"
    /\ UNCHANGED <<sharedVars, wait_i, conn_open, keepCall, last_success_ret, pub_old,
                   pollVars, hostVars>>

\* run, lines 320-322
RunExcept ==
    /\ pc = "run_except"
    /\ pc' = "run_head"
    /\ UNCHANGED <<sharedVars, wait_i, conn_open, keepCall, exc, last_success_ret, pub_old,
                   pollVars, hostVars>>

\* run, lines 312-319: __hid_loop has returned
RunTail ==
    /\ pc = "run_tail"
    /\ \E present \in BOOLEAN, opened \in BOOLEAN :
         IF present /\ opened
         THEN conn_open' = conn_open + 1 /\ pc' = "run_conn"
         ELSE UNCHANGED conn_open /\ pc' = "run_head"
    /\ UNCHANGED <<sharedVars, wait_i, keepCall, exc, last_success_ret, pub_old,
                   pollVars, hostVars>>

\* run, lines 315-316: the body of the with block is pass
RunConn ==
    /\ pc = "run_conn"
    /\ conn_open' = connected_exit(conn_open)
    /\ pc' = "run_head"
    /\ UNCHANGED <<sharedVars, wait_i, keepCall, exc, last_success_ret, pub_old,
                   pollVars, hostVars>>

\* __hid_loop, line 325, and the gpio reset of __hid_loop_wait_device (line 354)
HidLoopHead ==
    /\ pc = "hl_head"
    /\ IF stop_event
       THEN pc' = "run_tail" /\ UNCHANGED <<exc, wait_i, reset_call>>
       ELSE /\ reset_call' = ResetStarts(reset_call)
            /\ \E gpio_ok \in BOOLEAN :
                 IF gpio_ok THEN pc' = "hl_wait" /\ wait_i' = 0 /\ UNCHANGED exc
                 ELSE pc' = "hl_except" /\ exc' = "gpio" /\ UNCHANGED wait_i
    /\ UNCHANGED <<sharedVars, conn_open, keepCall, last_success_ret, pub_old, pollVars,
                   key_call, clear_call, codec>>

\* __hid_loop_wait_device, lines 357-365: one iteration of the presence wait
WaitDevice ==
    /\ pc = "hl_wait"
    /\ \E present \in BOOLEAN :
         IF present
         THEN pc' = "hl_open" /\ wait_i' = 0 /\ exc' = "none"
         ELSE IF stop_event \/ wait_i + 1 = WaitTries
         THEN pc' = "hl_head" /\ wait_i' = 0 /\ exc' = "none"
         ELSE pc' = "hl_wait" /\ wait_i' = wait_i + 1 /\ UNCHANGED exc
    /\ UNCHANGED <<sharedVars, conn_open, keepCall, last_success_ret, pub_old, pollVars, hostVars>>

OpenConn_noprobe ==
    /\ pc = "hl_open"
    /\ \/ /\ conn_open' = conn_open + 1
          /\ pc' = "in_head"
          /\ UNCHANGED <<exc, keepCall>>
       \/ /\ Fault("io", FALSE)
    /\ UNCHANGED <<sharedVars, wait_i, last_success_ret, pub_old, pollVars, hostVars>>

\* __hid_loop, lines 329-330: open the connection, then the first status probe
OpenConn ==
    /\ pc = "hl_open"
    /\ \/ /\ conn_open' = conn_open + 1
          /\ Call(GET_INFO_S, "entry")
          /\ UNCHANGED exc
       \/ /\ Fault("io", FALSE)
    /\ UNCHANGED <<sharedVars, wait_i, last_success_ret, pub_old, pollVars, hostVars>>

\* request frames beyond those the worker builds: the read-custom-HID-data
\* probe (code 0x87) and a frame with a command code of 0x10, above the codes
\* of the command list
OtherRequests ==
    {make_with_sum(READ_MY_HID_DATA \o <<0>>), make_with_sum(CH9329_HEADER \o <<16, 0>>)}

\* __process_request(conn, request) for one of the other request frames, on the
\* open connection, where the worker would send its idle probe
CallAny ==
    /\ pc = "in_get"
    /\ events_queue = <<>>
    /\ \E req \in OtherRequests : Call(req, "idle")
    /\ UNCHANGED <<sharedVars, wait_i, conn_open, exc, last_success_ret, pub_old,
                   pollVars, hostVars>>

InnerCond_forever(stopped, q) == TRUE

InnerCond_nodrain(stopped, q) == ~stopped

\* while not (stop and qsize == 0), line 331
InnerCond(stopped, q) == ~(stopped /\ Len(q) = 0)

\* __hid_loop, lines 331-332
InnerHead ==
    /\ pc = "in_head"
    /\ IF ~InnerCond(stop_event, events_queue)
       THEN /\ conn_open' = connected_exit(conn_open)
            /\ pc' = "hl_head"
            /\ last_success_ret' = "none"
       ELSE /\ UNCHANGED <<conn_open, last_success_ret>>
            /\ pc' = IF reset_required_event THEN "in_reset" ELSE "in_get"
    /\ UNCHANGED <<sharedVars, wait_i, keepCall, exc, pub_old, pollVars, hostVars>>

\* __hid_loop, lines 334-335: busy, then the hardware reset, which may raise
ResetDevice ==
    /\ pc = "in_reset"
    /\ state_flags' = Update(state_flags, "busy", 1)
    /\ notified' = TRUE
    /\ \E gpio_ok \in BOOLEAN : exc' = IF gpio_ok THEN "none" ELSE "gpio"
    /\ reset_call' = ResetStarts(reset_call)
    /\ pc' = "in_clear"
    /\ UNCHANGED <<cfg, stop_event, reset_required_event, events_queue, wait_i, conn_open,
                   keepCall, last_success_ret, pub_old, pollVars, key_call, clear_call,
                   codec>>

ResetClear_nofinally ==
    /\ pc = "in_clear"
    /\ reset_required_event' = (exc # "none" /\ reset_required_event)
    /\ IF exc # "none"
       THEN Fault(exc, TRUE)
       ELSE pc' = "in_get" /\ UNCHANGED <<conn_open, exc, keepCall>>
    /\ UNCHANGED <<cfg, stop_event, events_queue, state_flags, notified, wait_i,
                   last_success_ret, pub_old, pollVars, hostVars>>

\* __hid_loop, lines 336-337: finally
ResetClear ==
    /\ pc = "in_clear"
    /\ reset_required_event' = FALSE
    /\ IF exc # "none"
       THEN Fault(exc, TRUE)
       ELSE pc' = "in_get" /\ UNCHANGED <<conn_open, exc, keepCall>>
    /\ UNCHANGED <<cfg, stop_event, events_queue, state_flags, notified, wait_i,
                   last_success_ret, pub_old, pollVars, hostVars>>

\* __hid_loop, lines 338-343: dequeue with timeout, encode, call
GetEvent ==
    /\ pc = "in_get"
    /\ IF events_queue # <<>>
       THEN /\ events_queue' = Tail(events_queue)
            /\ LET down == make_down(Head(events_queue))
               IN  IF down.ok
                   THEN Call(down.frame, "event") /\ UNCHANGED <<conn_open, exc>>
                   ELSE Fault("encode", TRUE)
       ELSE /\ UNCHANGED events_queue
            /\ Call(GET_INFO_S, "idle")
            /\ UNCHANGED <<conn_open, exc>>
    /\ clear_call' = [clear_call EXCEPT
                         !.old = IF events_queue # <<>> /\ @ > 0 THEN @ - 1 ELSE @]
    /\ UNCHANGED <<cfg, stop_event, reset_required_event, state_flags, notified, wait_i,
                   last_success_ret, pub_old, pollVars, key_call, codec, reset_call>>

\* a returned bool, as a name
RetName(b) == IF b THEN "True" ELSE "False"

\* return of __process_request to its call site (lines 330, 341, 343-344)
Return ==
    /\ pc = "pr_ret"
    /\ last_success_ret' = IF outcome = "success" THEN RetName(error_retval)
                           ELSE last_success_ret
    /\ events_queue' = IF ret_to = "event" /\ ~error_retval
                       THEN clear_events(events_queue) ELSE events_queue
    /\ pc' = "in_head"
    /\ DropLocals
    /\ UNCHANGED <<cfg, stop_event, reset_required_event, state_flags, notified, wait_i,
                   conn_open, exc, pub_old, pollVars, hostVars>>

HidLoopExcept_ends ==
    /\ pc = "hl_except"
    /\ events_queue' = clear_events(events_queue)
    /\ pc' = "done"
    /\ last_success_ret' = "none"
    /\ UNCHANGED <<cfg, stop_event, reset_required_event, state_flags, notified, wait_i,
                   conn_open, keepCall, exc, pub_old, pollVars, hostVars>>

\* __hid_loop, lines 346-349: except Exception
HidLoopExcept ==
    /\ pc = "hl_except"
    /\ events_queue' = clear_events(events_queue)
    /\ pc' = "hl_head"
    /\ last_success_ret' = "none"
    /\ UNCHANGED <<cfg, stop_event, reset_required_event, state_flags, notified, wait_i,
                   conn_open, keepCall, exc, pub_old, pollVars, hostVars>>

Worker ==
    \/ RunHead \/ RunExcept \/ RunTail \/ RunConn
    \/ HidLoopHead \/ WaitDevice \/ OpenConn
    \/ InnerHead \/ ResetDevice \/ ResetClear \/ GetEvent
    \/ AttemptNoop \/ Attempt \/ PublishNum \/ PublishCaps \/ PublishScroll
    \/ LoopExit \/ ProcessEnd \/ Return \/ HidLoopExcept

(***************************************************************************)
(* Producers (the host's calls).                                           *)
(***************************************************************************)
workerVars == <<pc, wait_i, conn_open, keepCall, exc, last_success_ret, pub_old>>

\* __queue_event(event), clear=False
QueueEvent ==
    /\ ~stop_event
    /\ Len(events_queue) < MaxQueue
    /\ \E ev \in EngineEvents : events_queue' = Append(events_queue, ev)
    /\ UNCHANGED <<cfg, stop_event, reset_required_event, state_flags, notified,
                   workerVars, pollVars, hostVars>>

\* reset, lines 249-250; the call may be the one followed, when it is made with
\* the connection open and stop not set
Reset ==
    /\ reset_required_event' = TRUE
    /\ \E follow \in BOOLEAN :
         reset_call' = IF follow /\ reset_call = "watch" /\ conn_open = 1 /\ ~stop_event
                         THEN "made" ELSE reset_call
    /\ UNCHANGED <<cfg, stop_event, events_queue, state_flags, notified, workerVars,
                   pollVars, key_call, clear_call, codec>>

\* cleanup: stop_event.set() while the process is alive
Cleanup ==
    /\ pc # "done"
    /\ stop_event' = TRUE
    /\ UNCHANGED <<cfg, reset_required_event, events_queue, state_flags, notified,
                   workerVars, pollVars, hostVars>>

Producer == QueueEvent \/ Reset \/ Cleanup

\* send_key_events(keys), lines 263-264: the next (key, state) of the iterable is
\* made a KeyEvent and handed to __queue_event, which drops it once stop is set;
\* queued counts the events put on the queue
SendKeyStep ==
    /\ key_call.i < Len(key_call.keys)
    /\ LET item == key_call.keys[key_call.i + 1]
       IN  IF ~stop_event
           THEN /\ events_queue' = Append(events_queue, KeyEvent(item[1], item[2]))
                /\ key_call' = [key_call EXCEPT !.i = @ + 1, !.queued = @ + 1]
           ELSE /\ UNCHANGED events_queue
                /\ key_call' = [key_call EXCEPT !.i = @ + 1]
    /\ UNCHANGED <<cfg, stop_event, reset_required_event, state_flags, notified,
                   workerVars, pollVars, clear_call, codec, reset_call>>

\* __queue_event(event, clear=True), lines 298-303: the call begins and
\* tools.clear_queue takes the number of events queued at this moment
ClearBegin ==
    /\ clear_call.at = "idle"
    /\ ~stop_event
    /\ clear_call' = [at |-> "drain", n |-> Len(events_queue), old |-> Len(events_queue)]
    /\ UNCHANGED <<sharedVars, workerVars, pollVars, key_call, codec, reset_call>>

\* tools.clear_queue: one of the events counted at the beginning is taken off
\* the queue and discarded
ClearStep ==
    /\ clear_call.at = "drain"
    /\ clear_call.n > 0
    /\ events_queue # <<>>
    /\ events_queue' = Tail(events_queue)
    /\ clear_call' = [clear_call EXCEPT !.n = @ - 1, !.old = IF @ > 0 THEN @ - 1 ELSE @]
    /\ UNCHANGED <<cfg, stop_event, reset_required_event, state_flags, notified,
                   workerVars, pollVars, key_call, codec, reset_call>>

\* tools.clear_queue is done (all counted events taken, or the queue found
\* empty); line 304: put_nowait(event)
ClearPut ==
    /\ clear_call.at = "drain"
    /\ clear_call.n = 0 \/ events_queue = <<>>
    /\ Len(events_queue) < MaxQueue
    /\ \E ev \in EngineEvents : events_queue' = Append(events_queue, ev)
    /\ clear_call' = NoClear
    /\ UNCHANGED <<cfg, stop_event, reset_required_event, state_flags, notified,
                   workerVars, pollVars, key_call, codec, reset_call>>

(***************************************************************************)
(* Consumer of poll_state.                                                 *)
(***************************************************************************)
PubPcs == {"pr_pub_num", "pr_pub_caps", "pr_pub_scroll"}

PollCheck_always ==
    /\ poll_pc = "get"
    /\ LET state == get_state(state_flags)
       IN  /\ snap_whole' = (pc \in PubPcs =>
                               state \in {get_state(pub_old),
                                          get_state(PubTarget(pub_old, response))})
           /\ just_yielded' = TRUE
           /\ last_yielded' = state
           /\ prev_state' = state
    /\ poll_pc' = "wait"
    /\ UNCHANGED <<sharedVars, workerVars, hostVars>>

\* poll_state, lines 243-246: take a snapshot, yield it if it differs
PollCheck ==
    /\ poll_pc = "get"
    /\ LET state == get_state(state_flags)
       IN  /\ snap_whole' = (pc \in PubPcs =>
                               state \in {get_state(pub_old),
                                          get_state(PubTarget(pub_old, response))})
           /\ IF state # prev_state
              THEN /\ just_yielded' = TRUE
                   /\ last_yielded' = state
                   /\ prev_state' = state
              ELSE /\ just_yielded' = FALSE
                   /\ UNCHANGED <<last_yielded, prev_state>>
    /\ poll_pc' = "wait"
    /\ UNCHANGED <<sharedVars, workerVars, hostVars>>

\* poll_state, line 247: await self.__notifier.wait()
PollWait ==
    /\ poll_pc = "wait"
    /\ notified
    /\ notified' = FALSE
    /\ poll_pc' = "get"
    /\ UNCHANGED <<cfg, stop_event, reset_required_event, events_queue, state_flags,
                   workerVars, prev_state, last_yielded, just_yielded, snap_whole,
                   hostVars>>

Poller == PollCheck \/ PollWait

(***************************************************************************)
(* The codec applied to inputs: make_with_sum / check_with_sum on byte     *)
(* sequences, construction (__post_init__) and make_down on events.        *)
(***************************************************************************)
engineVars == <<sharedVars, pc, wait_i, conn_open, localVars, exc, callGhost,
                last_success_ret, pub_old, pollVars>>

\* byte values the payloads are made of
ByteSamples == {0, 1, 128, 255}
\* command codes of the frames built: get info, keyboard, absolute and relative
\* mouse, read custom HID data
CommandCodes == {1, 2, 4, 5, 135}

Payloads == UNION {[1 .. n -> ByteSamples] : n \in 0 .. MaxPayload}

\* header + command + length + payload, and the empty sequence
FrameData ==
    {<<>>} \cup {CH9329_HEADER \o <<cmd, Len(p)>> \o p : cmd \in CommandCodes, p \in Payloads}

Args(kind, name, state, x, y) ==
    [kind |-> kind, name |-> name, state |-> state, x |-> x, y |-> y]

\* coordinates: the ends of the range, one beyond them, the middle, and a grid
MoveEnds ==
    {MouseRange_MIN - 1, MouseRange_MIN, MouseRange_MIN + 1, -1, 0, 1,
     MouseRange_MAX - 1, MouseRange_MAX, MouseRange_MAX + 1}
MoveTargets == MoveEnds \cup {MouseRange_MIN + 64 * k : k \in 0 .. 1023}

\* deltas: the whole range and one beyond each end
Deltas == -128 .. 128
DeltaEnds == {-127, 0, 127}

\* the arguments of the engine's send_* calls
EventArgs ==
    {Args("key", n, st, 0, 0) : n \in {"a", "b", "zz"}, st \in BOOLEAN}
    \cup {Args("button", n, st, 0, 0) :
              n \in {"left", "right", "middle", "up", "down", "side"}, st \in BOOLEAN}
    \cup {Args("move", "", TRUE, x, x) : x \in MoveTargets}
    \cup {Args("move", "", TRUE, x, y) : x \in MoveEnds, y \in MoveEnds}
    \cup {Args(k, "", TRUE, d, e) : k \in {"relative", "wheel"}, d \in Deltas, e \in DeltaEnds}
    \cup {Args(k, "", TRUE, e, d) : k \in {"relative", "wheel"}, d \in Deltas, e \in DeltaEnds}

\* the assertions of __post_init__
Validated(a) ==
    CASE a.kind = "key" -> a.name \in DOMAIN KEYMAP
      [] a.kind = "button" -> a.name \in {"left", "right", "middle", "up", "down"}
      [] a.kind = "move" -> /\ MouseRange_MIN <= a.x /\ a.x <= MouseRange_MAX
                            /\ MouseRange_MIN <= a.y /\ a.y <= MouseRange_MAX
      [] a.kind \in {"relative", "wheel"} -> /\ -127 <= a.x /\ a.x <= 127
                                             /\ -127 <= a.y /\ a.y <= 127

\* the event a send_* call constructs
Constructed(a) ==
    CASE a.kind = "key" -> KeyEvent(a.name, a.state)
      [] a.kind = "button" -> MouseButtonEvent(a.name, a.state)
      [] a.kind = "move" -> MouseMoveEvent(a.x, a.y)
      [] a.kind = "relative" -> MouseRelativeEvent(a.x, a.y)
      [] a.kind = "wheel" -> MouseWheelEvent(a.x, a.y)

\* make_with_sum(data)
Build ==
    /\ codec.op = "data"
    /\ codec' = [op |-> "built", data |-> codec.data,
                 frame |-> make_with_sum(codec.data), touched |-> FALSE]
    /\ UNCHANGED <<engineVars, key_call, clear_call, reset_call>>

\* one byte of the built frame is replaced by a different byte value
ReplaceByte ==
    /\ codec.op = "built"
    /\ ~codec.touched
    /\ \E i \in 1 .. Len(codec.frame), v \in 0 .. 255 :
         /\ v # codec.frame[i]
         /\ codec' = [codec EXCEPT !.frame[i] = v, !.touched = TRUE]
    /\ UNCHANGED <<engineVars, key_call, clear_call, reset_call>>

\* check_with_sum(frame)
Verify ==
    /\ codec.op = "built"
    /\ codec' = [op |-> "checked", data |-> codec.data, frame |-> codec.frame,
                 touched |-> codec.touched, valid |-> check_with_sum(codec.frame)]
    /\ UNCHANGED <<engineVars, key_call, clear_call, reset_call>>

\* the constructor of the event: __post_init__ asserts, then derives fixed_x/y
Construct ==
    /\ codec.op = "args"
    /\ codec' = IF Validated(codec.args)
                THEN [op |-> "event", args |-> codec.args, ev |-> Constructed(codec.args)]
                ELSE [op |-> "rejected", args |-> codec.args]
    /\ UNCHANGED <<engineVars, key_call, clear_call, reset_call>>

\* event.make_down()
Encode ==
    /\ codec.op = "event"
    /\ codec' = [op |-> "encoded", args |-> codec.args, ev |-> codec.ev,
                 down |-> make_down(codec.ev)]
    /\ UNCHANGED <<engineVars, key_call, clear_call, reset_call>>

CodecInputs ==
    {[op |-> "data", data |-> d] : d \in FrameData}
    \cup {[op |-> "args", args |-> a] : a \in EventArgs}

(***************************************************************************)
(* Specifications.                                                         *)
(***************************************************************************)
\* the engine after __init__, for a configuration of `configs`
Engine(configs) ==
    /\ cfg \in configs
    /\ stop_event = FALSE
    /\ reset_required_event = FALSE
    /\ events_queue = <<>>
    /\ state_flags = InitFlags
    /\ notified = FALSE
    /\ pc = "run_head"
    /\ wait_i = 0
    /\ conn_open = 0
    /\ ret_to = "none"
    /\ request = <<>>
    /\ response = <<>>
    /\ common_retries = 0
    /\ read_retries = 0
    /\ error_retval = FALSE
    /\ error_messages = <<>>
    /\ live_log_errors = FALSE
    /\ exc = "none"
    /\ attempts = 0
    /\ probes = 0
    /\ outcome = "none"
    /\ log = <<>>
    /\ many_logged = FALSE
    /\ all_badsum = TRUE
    /\ last_kind = "none"
    /\ online_at_call = 0
    /\ retried_after_stop = FALSE
    /\ last_success_ret = "none"
    /\ pub_old = InitFlags
    /\ poll_pc = "get"
    /\ prev_state = EmptyDict
    /\ last_yielded = EmptyDict
    /\ just_yielded = FALSE
    /\ snap_whole = TRUE

\* the state after __init__, no host call being followed
Start(configs) ==
    /\ Engine(configs)
    /\ key_call = NoKeys
    /\ clear_call = NoClear
    /\ codec = NoCodec
    /\ reset_call = "none"

Init == Start(Configs)

\* the engine and its producers
Next == Worker \/ Producer

Spec == Init /\ [][Next]_vars

\* the engine, a consumer of poll_state, reset and cleanup
InitPoll == Start(PollConfigs)

NextPoll == Worker \/ Reset \/ Cleanup \/ Poller

SpecPoll == InitPoll /\ [][NextPoll]_vars

\* the engine and its producers, the worker process being scheduled as long as it
\* can take a step
InitLive == Start(LiveConfigs)

FairSpec == InitLive /\ [][Next]_vars /\ WF_vars(Worker)

\* the engine and its producers, __process_request being called with the other
\* request frames as well
InitCall == Start(LiveConfigs)

NextCall == Worker \/ CallAny \/ Producer

SpecCall == InitCall /\ [][NextCall]_vars

\* the calls send_key_events([(k, True), (k, False)]) for the keys of the table
KeyCalls ==
    {[keys |-> <<<<k, TRUE>>, <<k, FALSE>>>>, i |-> 0, queued |-> 0] : k \in DOMAIN KEYMAP}

\* the engine and one producer in a call of send_key_events
InitKeys ==
    /\ Engine(PollConfigs)
    /\ key_call \in KeyCalls
    /\ clear_call = NoClear
    /\ codec = NoCodec
    /\ reset_call = "none"

NextKeys == Worker \/ SendKeyStep \/ Reset \/ Cleanup

SpecKeys == InitKeys /\ [][NextKeys]_vars

\* the configurations explored together with a clearing submission
ClearConfigs == PollConfigs

\* the engine, a producer that appends and a producer that submits with clear
InitClear == Start(ClearConfigs)

NextClear == Worker \/ Producer \/ ClearBegin \/ ClearStep \/ ClearPut

SpecClear == InitClear /\ [][NextClear]_vars

\* the codec applied to byte sequences and to the arguments of the send_* calls
InitCodec ==
    /\ Engine({DefaultConfig})
    /\ key_call = NoKeys
    /\ clear_call = NoClear
    /\ codec \in CodecInputs
    /\ reset_call = "none"

NextCodec == Build \/ ReplaceByte \/ Verify \/ Construct \/ Encode

SpecCodec == InitCodec /\ [][NextCodec]_vars

\* the engine and its producers, one call of reset being followed
InitReset ==
    /\ Engine(PollConfigs)
    /\ key_call = NoKeys
    /\ clear_call = NoClear
    /\ codec = NoCodec
    /\ reset_call = "watch"

SpecReset == InitReset /\ [][Next]_vars

(***************************************************************************)
(* Properties.                                                             *)
(***************************************************************************)
InWith == {"pr_loop", "pr_pub_num", "pr_pub_caps", "pr_pub_scroll", "pr_end", "pr_ret",
           "in_head", "in_reset", "in_clear", "in_get", "run_conn"}

\* C1: a short read of the exchange of the request frame is handled inside the
\* retry loop and never leaves the Request Processor towards the Event Worker.
C1_ShortReadStaysInRetryLoop == ~(pc = "hl_except" /\ exc = "short_read")

\* C2: the value returned when the retries are exhausted differs from the value
\* returned when the request was acknowledged.
C2_ReturnTellsOutcome ==
    (pc = "pr_ret" /\ outcome = "exhausted" /\ last_success_ret # "none")
        => RetName(error_retval) # last_success_ret

\* C3: with only complete, checksum-invalid answers, a call makes exactly
\* common_retries attempts, one decrement each, logs "many errors" and returns
\* with online = false.
C3_RetryExhaustion ==
    /\ (pc \in {"pr_loop", "pr_end", "pr_ret"} /\ all_badsum /\ ~cfg.noop)
           => common_retries + attempts = cfg.common_retries
    /\ (pc = "pr_ret" /\ all_badsum /\ attempts >= 1)
           => /\ attempts = cfg.common_retries
              /\ outcome = "exhausted"
              /\ many_logged
              /\ state_flags.online = 0

C3_Witness ==
    pc = "pr_ret" /\ all_badsum /\ attempts >= 2 /\ many_logged /\ state_flags.online = 0

\* C4: when the processing of a dequeued event fails, the worker leaves the queue
\* empty; when it succeeds the pending events stay.
C4_FailureFlushesQueue ==
    [][(pc = "pr_ret" /\ pc' = "in_head" /\ ret_to = "event")
          => /\ outcome = "exhausted" => events_queue' = <<>>
             /\ outcome = "success" => events_queue' = events_queue]_vars

\* C5: the worker ends only with the stop signal set; a fault goes to a handler
\* at the loop boundary, whose backoff is followed by the loop head, and the
\* loop head without stop starts a new cycle.
C5_OnlyStopEndsWorker ==
    [][/\ pc' = "done" => stop_event'
       /\ (exc' # exc /\ exc' # "none") => pc' \in {"hl_except", "run_except", "in_clear"}
       /\ pc = "hl_except" => pc' \in {"hl_except", "hl_head"}
       /\ pc = "run_except" => pc' \in {"run_except", "run_head"}
       /\ (pc = "hl_head" /\ ~stop_event) => pc' \in {"hl_head", "hl_wait", "hl_except"}
       /\ (pc = "run_head" /\ ~stop_event) => pc' \in {"run_head", "hl_head", "run_except"}
      ]_vars

C5_Witness == pc = "hl_wait" /\ exc = "index" /\ ~stop_event

\* C6 (as claimed): once the stop signal is set while a request is failing, no
\* further attempt is started for it.
C6_StopEndsRetries == ~retried_after_stop

\* C6 (amended): the retry loop is left without an acknowledgement only when a
\* retry counter is zero, never because the stop signal is set; with both
\* counters positive the next step of the loop is another attempt.
C6_RetryIgnoresStop ==
    [][/\ (pc = "pr_loop" /\ pc' = "pr_end" /\ outcome' = "exhausted")
            => (common_retries = 0 \/ read_retries = 0)
       /\ (pc = "pr_loop" /\ pc' = "pr_loop" /\ common_retries' # common_retries)
            => attempts' = attempts + 1
      ]_vars

C6_Witness == retried_after_stop /\ stop_event /\ pc = "pr_loop" /\ attempts >= 2

\* C7: once the stop signal is set, the run operation of the worker eventually
\* ends.
C7_StopEndsRun == stop_event ~> (pc = "done")

C7_Witness == pc = "done" /\ stop_event /\ state_flags.online = 1

\* C8: at most one connection is open, only inside the worker's with block, and
\* none is open at a presence check or in the fault handler.
C8_ConnScoped ==
    /\ conn_open \in {0, 1}
    /\ conn_open = 1 <=> pc \in InWith

C8_Witness == pc = "hl_wait" /\ exc = "short_read" /\ conn_open = 0

\* C9: a snapshot read by a consumer never mixes the values of two status
\* answers.
C9_SnapshotWhole == snap_whole

\* C10: poll_state yields the current state first, then a state only when it
\* differs from the one it yielded last, and checks again only after a
\* notification.
C10_PollState ==
    [][/\ (poll_pc = "get" /\ poll_pc' = "wait")
            => /\ last_yielded = EmptyDict
                    => (just_yielded' /\ last_yielded' = get_state(state_flags))
               /\ just_yielded'
                    => (last_yielded' # last_yielded
                        /\ last_yielded' = get_state(state_flags))
               /\ get_state(state_flags) = last_yielded
                    => (~just_yielded' /\ last_yielded' = last_yielded)
       /\ (poll_pc = "wait" /\ poll_pc' = "get") => notified
      ]_vars

C10_Witness ==
    /\ poll_pc = "wait"
    /\ ~notified
    /\ ~just_yielded
    /\ last_yielded = get_state(InitFlags)
    /\ state_flags = [InitFlags EXCEPT !.busy = 1]

\* C11: the frame built from D is D followed by the sum of D's bytes modulo
\* 256, a byte; it passes the check; and with any one byte replaced by a
\* different value it fails the check.
C11_ChecksumRoundTrip ==
    /\ (codec.op \in {"built", "checked"} /\ ~codec.touched)
          => /\ codec.frame = codec.data \o <<SumBytes(codec.data) % 256>>
             /\ \A i \in 1 .. Len(codec.frame) : codec.frame[i] \in 0 .. 255
    /\ codec.op = "checked" => (codec.valid <=> ~codec.touched)

C11_Witness ==
    /\ codec.op = "checked"
    /\ codec.touched
    /\ ~codec.valid
    /\ SumBytes(codec.data) > 255
    /\ Len(codec.data) > 5
    /\ codec.frame[2] # codec.data[2]

\* C12: the frame of a MouseRelativeEvent with deltas in [-127,127] is encoded
\* without failing and carries the two bytes delta_x + 127 and delta_y + 127.
C12_RelativeOffset ==
    (codec.op = "encoded" /\ codec.ev.kind = "relative")
        => /\ codec.down.ok
           /\ codec.down.frame[8] = codec.args.x + 127
           /\ codec.down.frame[9] = codec.args.y + 127

\* the unsigned 16-bit little-endian number at bytes i, i + 1 of a frame
DeviceCoord(frame, i) == frame[i] + 256 * frame[i + 1]

\* C13: the frame of a MouseMoveEvent with targets in [MIN,MAX] carries device
\* coordinates in 0..4095: 0 for MIN, 4095 for MAX, 2047 or 2048 for the middle.
C13_MoveRange ==
    (codec.op = "encoded" /\ codec.ev.kind = "move")
        => /\ codec.down.ok
           /\ LET dev_x == DeviceCoord(codec.down.frame, 8)
                   dev_y == DeviceCoord(codec.down.frame, 10)
               IN  /\ dev_x \in 0 .. 4095
                   /\ dev_y \in 0 .. 4095
                   /\ codec.args.x = MouseRange_MIN => dev_x = 0
                   /\ codec.args.y = MouseRange_MIN => dev_y = 0
                   /\ codec.args.x = MouseRange_MAX => dev_x = 4095
                   /\ codec.args.y = MouseRange_MAX => dev_y = 4095
                   /\ codec.args.x \in {-1, 0} => dev_x \in {2047, 2048}
                   /\ codec.args.y \in {-1, 0} => dev_y \in {2047, 2048}

\* C14: every event that passes construction is encoded without failing, to a
\* frame that starts with the header, whose length byte counts the bytes
\* between it and the checksum, and whose checksum passes the check.
C14_EncodeTotal ==
    codec.op = "encoded"
        => /\ codec.down.ok
           /\ StartsWith(codec.down.frame, CH9329_HEADER)
           /\ Len(codec.down.frame) >= 6
           /\ codec.down.frame[5] = Len(codec.down.frame) - 6
           /\ check_with_sum(codec.down.frame)

\* the messages of the first k errors of a request, in order of occurrence
Messages(k) == [i \in 1 .. k |-> i]

InCall == {"pr_loop", "pr_pub_num", "pr_pub_caps", "pr_pub_scroll", "pr_end"}

\* C15: with k Temporary errors so far in the request and threshold T, nothing is
\* logged and the k messages are buffered while k <= T; from the (T+1)-th error
\* on all k messages are logged, in order, and none is buffered; at the return
\* all k are logged once, in order.  A Temporary error never ends the request
\* with messages still buffered.
C15_ErrorBurst ==
    [][LET k == cfg.common_retries - common_retries'
       IN  /\ (pc' \in InCall /\ ~cfg.noop)
                => IF k <= cfg.errors_threshold
                   THEN log' = <<>> /\ error_messages' = Messages(k) /\ ~live_log_errors'
                   ELSE log' = Messages(k) /\ error_messages' = <<>> /\ live_log_errors'
           /\ pc' = "pr_ret" => log' = Messages(k)
           /\ (pc = "pr_loop" /\ pc' = "hl_except" /\ exc' = "short_read")
                => error_messages = <<>>
      ]_vars

\* C16: with the noop flag set a request exchanges nothing with the connection
\* (neither the request frame nor a probe), its one loop step publishes
\* online = true and ends the loop with both retry counters as configured, it
\* returns without the "many errors" diagnostic or any logged error, and the
\* lock fields never change.
C16_NoopBypass ==
    [][cfg.noop =>
         /\ attempts' = 0 /\ probes' = 0
         /\ (pc = "pr_loop" /\ pc' # "pr_loop")
               => /\ pc' = "pr_end" /\ outcome' = "success"
                  /\ state_flags' = [state_flags EXCEPT !.online = 1]
                  /\ notified'
                  /\ common_retries' = cfg.common_retries
                  /\ read_retries' = cfg.read_retries
         /\ pc' = "pr_ret"
               => /\ ~many_logged' /\ log' = <<>>
                  /\ outcome' = "success"
                  /\ state_flags'.online = 1
         /\ state_flags'.num = state_flags.num
         /\ state_flags'.caps = state_flags.caps
         /\ state_flags'.scroll = state_flags.scroll
      ]_vars

C16_Witness ==
    /\ cfg.noop
    /\ pc = "pr_ret"
    /\ ret_to = "event"
    /\ request = make_down(KeyEvent("a", TRUE)).frame
    /\ state_flags.online = 1
    /\ attempts = 0

KeyFrameBytes(code) == <<87, 171, 0, 2, 8, 0, 0, code, 0, 0, 0, 0, 0, (12 + code) % 256>>

\* C18: of the events queued by send_key_events([(k, True), (k, False)]) none is
\* lost and each is submitted once, in order: the queue only grows at its tail
\* or loses its head to a submission; the first frame submitted is the key frame
\* with k's code, the second is the all-zero release frame, and the two differ.
C18_PressThenRelease ==
    [][LET k == key_call.keys[1][1]
           m == key_call.queued - Len(events_queue)
           submits == pc = "in_get" /\ pc' = "pr_loop" /\ ret_to' = "event"
       IN  /\ events_queue' # events_queue
                => \/ /\ key_call'.queued = key_call.queued + 1
                      /\ events_queue' = Append(events_queue,
                                                KeyEvent(key_call.keys[key_call.queued + 1][1],
                                                         key_call.keys[key_call.queued + 1][2]))
                   \/ submits /\ events_queue' = Tail(events_queue)
           /\ ret_to' = "event" /\ ret_to # "event" => submits
           /\ submits
                => /\ m \in {0, 1}
                   /\ m = 0 => request' = KeyFrameBytes(KEYMAP[k])
                   /\ m = 1 => request' = KeyFrameBytes(0) /\ request' = release_keyboard
                   /\ KeyFrameBytes(KEYMAP[k]) # release_keyboard
      ]_vars

C18_Witness ==
    /\ pc = "pr_ret"
    /\ ret_to = "event"
    /\ request = release_keyboard
    /\ key_call.queued = 2
    /\ events_queue = <<>>
    /\ ~stop_event

\* a complete response that does not start with the header / whose last byte is
\* not the sum of the others modulo 256
BadHeaderResp(r) == SubSeq(r, 1, 3) # <<87, 171, 0>>
BadSumResp(r) == r[Len(r)] # SumBytes(SubSeq(r, 1, Len(r) - 1)) % 256

\* a well-formed response to a request other than the 0x87 probe whose code is
\* neither request + 0x80 nor request + 0xC0, or which acknowledges a request
\* with a code of 0x10 or more
UnexpectedShape(req, r) ==
    /\ ~BadHeaderResp(r) /\ ~BadSumResp(r)
    /\ req[4] # 135
    /\ \/ r[4] \notin {req[4] + 128, req[4] + 192}
       \/ r[4] = req[4] + 128 /\ req[4] >= 16

\* an exchange of the request frame was completed and its response is a
\* protocol error
ProtocolErrorStep ==
    /\ pc = "pr_loop"
    /\ attempts' = attempts + 1
    /\ \/ BadHeaderResp(response')
       \/ BadSumResp(response')
       \/ UnexpectedShape(request, response')

\* C19 (as claimed): every protocol error in a response consumes one retry, as a
\* Temporary error does, and is followed by one resynchronizing probe exchange.
C19_EveryProtocolErrorProbes ==
    [][ProtocolErrorStep
         => /\ pc' = "pr_loop"
            /\ common_retries' = common_retries - 1
            /\ probes' = probes + 1
      ]_vars

\* C19 (amended): every protocol error in a response is handled as a Temporary
\* error (one retry consumed, online = false, the loop goes on); the probe
\* exchange is issued for a bad header or a bad checksum and for nothing else.
C19_ProbeOnlyForInvalidFrame ==
    [][/\ ProtocolErrorStep
            => /\ pc' = "pr_loop"
               /\ common_retries' = common_retries - 1
               /\ state_flags'.online = 0
               /\ probes' = IF BadHeaderResp(response') \/ BadSumResp(response')
                             THEN probes + 1 ELSE probes
       /\ probes' = probes + 1
            => /\ pc = "pr_loop" /\ attempts' = attempts + 1
               /\ BadHeaderResp(response') \/ BadSumResp(response')
      ]_vars

C19_Witness ==
    /\ pc = "pr_loop"
    /\ attempts = 2
    /\ probes = 1
    /\ request[4] = 16
    /\ response[4] = 144
    /\ UnexpectedShape(request, response)
    /\ state_flags.online = 0

\* C20: once the acknowledgement (code 0x81) of a get-info request is published,
\* online is 1 exactly if response byte 6 is non-zero and num, caps, scroll are
\* bits 0, 1, 2 of response byte 7, the other fields being as before; a
\* well-formed response to the 0x87 probe, and the acknowledgement request + 0x80
\* of a request below 0x10 other than get-info, end the request at once, with no
\* retry consumed and Device State unchanged; nothing else ends it so.
C20_AckEffect ==
    [][LET wellFormed == ~BadHeaderResp(response') /\ ~BadSumResp(response')
           plainAck == \/ request[4] = 135
                       \/ /\ request[4] < 16 /\ request[4] # 1
                          /\ response'[4] = request[4] + 128
       IN  /\ (pc = "pr_loop" /\ pc' = "pr_pub_num")
                => /\ request[4] = 1 /\ response'[4] = 129 /\ wellFormed
                   /\ pub_old' = state_flags
           /\ (pc = "pr_pub_scroll" /\ pc' = "pr_end")
                => /\ outcome' = "success"
                   /\ common_retries' = common_retries
                   /\ state_flags'.online = (IF response[7] # 0 THEN 1 ELSE 0)
                   /\ state_flags'.num + 2 * state_flags'.caps + 4 * state_flags'.scroll
                        = response[8] % 8
                   /\ {state_flags'.num, state_flags'.caps, state_flags'.scroll}
                        \subseteq {0, 1}
                   /\ state_flags'.busy = pub_old.busy
                   /\ state_flags'.status = pub_old.status
           /\ (pc = "pr_loop" /\ attempts' = attempts + 1 /\ wellFormed /\ plainAck)
                => /\ pc' = "pr_end" /\ outcome' = "success"
                   /\ common_retries' = common_retries
                   /\ state_flags' = state_flags
           /\ (pc = "pr_loop" /\ pc' = "pr_end" /\ outcome' = "success" /\ ~cfg.noop)
                => wellFormed /\ plainAck
      ]_vars

C20_Witness ==
    /\ pc = "pr_end"
    /\ outcome = "success"
    /\ request[4] = 135
    /\ response # <<>>
    /\ state_flags = [InitFlags EXCEPT !.online = 1, !.num = 1, !.scroll = 1]

\* C21: reset has priority over dequeuing.  An inner-loop iteration whose head
\* finds the reset flag set goes to the reset, never to the dequeue; the reset
\* step marks the state busy and performs the hardware reset with the queue
\* untouched; the step after it clears the flag, whether the hardware reset
\* returned or raised, and only then, and only when it returned, the worker
\* reaches the dequeue; nothing leaves the queue between the head and the
\* clearing of the flag.
C21_ResetBeforeDequeue ==
    [][/\ (pc = "in_head" /\ pc' # pc /\ reset_required_event
             /\ InnerCond(stop_event, events_queue))
           => pc' = "in_reset"
       /\ (pc = "in_reset" /\ pc' # pc)
           => /\ pc' = "in_clear"
              /\ state_flags'.busy = 1
              /\ reset_required_event'
       /\ (pc = "in_clear" /\ pc' # pc)
           => /\ ~reset_required_event'
              /\ pc' = IF exc = "none" THEN "in_get" ELSE "hl_except"
       /\ (pc' = "in_get" /\ pc # "in_get")
           => \/ pc = "in_clear" /\ exc = "none"
              \/ pc = "in_head" /\ ~reset_required_event
       /\ (pc \in {"in_head", "in_reset", "in_clear"})
           => Len(events_queue') >= Len(events_queue)]_vars

\* the hardware reset raised with an event waiting: the flag is clear, the
\* state is busy and the event is still in the queue
C21_Witness ==
    /\ pc = "hl_except"
    /\ exc = "gpio"
    /\ conn_open = 0
    /\ state_flags.busy = 1
    /\ ~reset_required_event
    /\ events_queue # <<>>

\* the worker is inside the inner event loop of __hid_loop, a request made from
\* inside that loop included
InInnerLoop(p, rt) ==
    \/ p \in {"in_head", "in_reset", "in_clear", "in_get"}
    \/ p \in {"pr_loop", "pr_pub_num", "pr_pub_caps", "pr_pub_scroll", "pr_end", "pr_ret"}
        /\ rt \in {"event", "idle"}

\* C22: keep-alive ordering.  Opening the connection of __hid_loop starts a
\* get-info request with the queue untouched; the inner loop is entered only
\* by the return of that first request; an event is dequeued, and its frame
\* submitted, only from the dequeue of the inner loop; a dequeue that finds
\* the queue empty starts one get-info request, and the return of a request
\* leads to the head of the loop, never to a second probe.
C22_ProbeFirst ==
    [][/\ (pc = "hl_open" /\ conn_open' > conn_open)
           => /\ pc' = "pr_loop" /\ ret_to' = "entry" /\ attempts' = 0
              /\ request' = <<87, 171, 0, 1, 0, 3>>
              /\ events_queue' = events_queue
       /\ (InInnerLoop(pc', ret_to') /\ ~InInnerLoop(pc, ret_to))
           => /\ pc = "pr_ret" /\ ret_to = "entry" /\ pc' = "in_head"
              /\ request = <<87, 171, 0, 1, 0, 3>>
       /\ InInnerLoop(pc, ret_to) => conn_open = 1
       /\ Len(events_queue') < Len(events_queue)
           => pc = "in_get" /\ events_queue' = Tail(events_queue)
       /\ (ret_to' = "event" /\ ret_to # "event")
           => /\ pc = "in_get" /\ events_queue # <<>>
              /\ request' = make_down(Head(events_queue)).frame
       /\ (ret_to' = "idle" /\ ret_to # "idle")
           => pc = "in_get" /\ events_queue = <<>>
       /\ (pc = "in_get" /\ pc' # pc /\ events_queue = <<>>)
           => /\ pc' = "pr_loop" /\ ret_to' = "idle" /\ attempts' = 0
              /\ request' = <<87, 171, 0, 1, 0, 3>>
       /\ (pc = "pr_ret" /\ pc' # pc) => pc' = "in_head"]_vars

\* an event frame is about to be sent on a connection whose first status probe
\* ended without an acknowledgement
C22_Witness ==
    /\ pc = "pr_loop"
    /\ ret_to = "event"
    /\ attempts = 0
    /\ conn_open = 1
    /\ last_success_ret = "none"
    /\ state_flags.online = 0

\* C23: a request other than get-info that began with the device online, lost
\* one or more attempts to a Temporary error and was then acknowledged returns
\* with the device online.
C23_AckKeepsOnline ==
    (/\ pc = "pr_ret"
     /\ outcome = "success"
     /\ request[4] # 1
     /\ online_at_call = 1
     /\ attempts >= 2)
    => state_flags.online = 1

\* C24: drain on stop.  The inner loop is left either by a fault or by its own
\* condition, and by its condition only when stop is set and the queue is
\* empty; once stop is set nothing is added to the queue, and an event leaves
\* the queue only by the worker's dequeue, which submits its frame to the
\* Request Processor unless encoding it raises a fault.
C24_DrainOnStop ==
    [][/\ (InInnerLoop(pc, ret_to) /\ ~InInnerLoop(pc', ret_to'))
           => \/ pc' = "hl_except"
              \/ /\ pc = "in_head" /\ pc' = "hl_head"
                 /\ stop_event /\ events_queue = <<>>
       /\ (stop_event /\ events_queue' # events_queue)
           => /\ pc = "in_get"
              /\ events_queue' = Tail(events_queue)
              /\ \/ /\ pc' = "pr_loop" /\ ret_to' = "event" /\ attempts' = 0
                    /\ request' = make_down(Head(events_queue)).frame
                 \/ pc' = "hl_except" /\ exc' = "encode"]_vars

\* stop was set with two events in the queue: the first is being submitted, the
\* second waits for the next iteration
C24_Witness ==
    /\ stop_event
    /\ pc = "pr_loop"
    /\ ret_to = "event"
    /\ attempts = 0
    /\ events_queue # <<>>

\* C25: no reset request is lost.  While a call of reset made with the
\* connection open and stop not set has not been followed by the start of a
\* hardware reset and the worker is in its inner loop, the reset flag is set,
\* so that the worker still finds it at the head of an iteration.
C25_NoResetLost ==
    (reset_call = "made" /\ InInnerLoop(pc, ret_to)) => reset_required_event
====
